---- MODULE Spec2Model ----
(***************************************************************************)
(* Model of the kern scale client: the Web Serial transport (connect,      *)
(* disconnect, send, read loop, line parser).                              *)
(*                                                                         *)
(* Text is a sequence of one-character tokens.  "LF", "CR", "SP" and "TAB" *)
(* stand for the control and blank characters, "hi" and "lo" for the lead  *)
(* and continuation byte of a two-byte UTF-8 sequence, "deg" for the       *)
(* character such a pair decodes to and "FFFD" for the replacement         *)
(* character the decoder emits for a malformed sequence.                   *)
(***************************************************************************)
EXTENDS Integers, Sequences, FiniteSets, TLC

\* ------------------------------------------------------------------ bounds
MaxStream == 5
MaxLine == 4

\* ------------------------------------------------------- character classes
Digits == {"0", "1", "2", "3", "4", "5", "6", "7", "8", "9"}

Letters ==
  {"a", "b", "c", "d", "e", "f", "g", "h", "i", "j", "k", "l", "m", "n", "o",
   "p", "q", "r", "s", "t", "u", "v", "w", "x", "y", "z",
   "A", "B", "C", "D", "E", "F", "G", "H", "I", "J", "K", "L", "M", "N", "O",
   "P", "Q", "R", "S", "T", "U", "V", "W", "X", "Y", "Z"}

\* [a-zA-Z%/]
UnitChars == Letters \cup {"%", "/"}

\* \s, and the characters String.prototype.trim removes
WhiteSpace == {"SP", "TAB", "CR", "LF"}

DigitVal(c) ==
  CASE c = "0" -> 0 [] c = "1" -> 1 [] c = "2" -> 2 [] c = "3" -> 3
    [] c = "4" -> 4 [] c = "5" -> 5 [] c = "6" -> 6 [] c = "7" -> 7
    [] c = "8" -> 8 [] c = "9" -> 9

SetMin(S) == CHOOSE x \in S : \A y \in S : x <= y
SetMax(S) == CHOOSE x \in S : \A y \in S : x >= y

\* ------------------------------------------------------------------ events
\* A CustomEvent: its type and the fields of its detail (unused ones empty).
Event(type, message, raw, value, unit) ==
  [type |-> type, message |-> message, raw |-> raw, value |-> value, unit |-> unit]

EvPlain(type) == Event(type, <<>>, <<>>, <<>>, <<>>)
EvLog(message) == Event("log", message, <<>>, <<>>, <<>>)
EvError(message) == Event("error", message, <<>>, <<>>, <<>>)
EvReading(raw, value, unit) == Event("reading", <<>>, raw, value, unit)

\* value: null is <<>>, a number is <<m, e>>, standing for m / 10^e.
Null == <<>>

\* ------------------------------------------------------------- parseFloat
RECURSIVE DigitsVal(_)
DigitsVal(ds) ==
  IF ds = <<>> THEN 0
  ELSE 10 * DigitsVal(SubSeq(ds, 1, Len(ds) - 1)) + DigitVal(ds[Len(ds)])

RECURSIVE Normalize(_, _)
\* m / 10^e with the trailing zeros of the fraction dropped
Normalize(m, e) ==
  IF e > 0 /\ m % 10 = 0 THEN Normalize(m \div 10, e - 1) ELSE <<m, e>>

\* parseFloat of a literal -?\d+(\.\d+)?
ParseFloat(lit) ==
  LET neg == lit[1] = "-"
      body == IF neg THEN SubSeq(lit, 2, Len(lit)) ELSE lit
      dots == {i \in 1..Len(body) : body[i] = "."}
      e == IF dots = {} THEN 0 ELSE Len(body) - SetMin(dots)
      ds == SelectSeq(body, LAMBDA c : c # ".")
      m == DigitsVal(ds)
  IN  Normalize(IF neg THEN 0 - m ELSE m, e)

\* -------------------------------------------------- the regular expression
RECURSIVE RunEnd(_, _, _)
\* a greedy X*: the index after the longest run of cls characters from i
RunEnd(s, i, cls) ==
  IF i <= Len(s) /\ s[i] \in cls THEN RunEnd(s, i + 1, cls) ELSE i

NoMatch == [ok |-> FALSE, g1 |-> <<>>, g3 |-> <<>>]

\* the expression without its optional fraction group
MatchBodyNoFraction(s, g, d) ==
  LET e == RunEnd(s, d, Digits)
      u == RunEnd(s, e, WhiteSpace)
      v == RunEnd(s, u, UnitChars)
  IN  IF e = d THEN NoMatch
      ELSE [ok |-> TRUE, g1 |-> SubSeq(s, g, e - 1), g3 |-> SubSeq(s, u, v - 1)]

\* \d+(\.\d+)?\s*([a-zA-Z%/]*) from index d, the literal (group 1) starting at g
MatchBody(s, g, d) ==
  LET e == RunEnd(s, d, Digits)
      f == IF e <= Len(s) /\ s[e] = "." THEN RunEnd(s, e + 1, Digits) ELSE e
      g1e == IF f > e + 1 THEN f ELSE e
      u == RunEnd(s, g1e, WhiteSpace)
      v == RunEnd(s, u, UnitChars)
  IN  IF e = d THEN NoMatch
      ELSE [ok |-> TRUE, g1 |-> SubSeq(s, g, g1e - 1), g3 |-> SubSeq(s, u, v - 1)]

\* the expression tried at start index i: -? takes a minus when there is one
\* and gives it back when the rest does not match
MatchAt(s, i) ==
  IF i <= Len(s) /\ s[i] = "-" /\ MatchBody(s, i, i + 1).ok
  THEN MatchBody(s, i, i + 1)
  ELSE MatchBody(s, i, i)

RECURSIVE MatchFrom(_, _)
MatchFrom(s, i) ==
  IF i > Len(s) THEN NoMatch
  ELSE IF MatchAt(s, i).ok THEN MatchAt(s, i)
  ELSE MatchFrom(s, i + 1)

\* line.match(/(-?\d+(\.\d+)?)\s*([a-zA-Z%/]*)/): the leftmost match
Match(line) == MatchFrom(line, 1)

\* ---------------------------------------------------------------- #parseLine
\* #parseLine emitting the reading before the log
ParseLineReadingFirst(line) ==
  LET match == Match(line)
  IN  <<IF match.ok
        THEN EvReading(line, ParseFloat(match.g1), match.g3)
        ELSE EvReading(line, Null, <<>>),
        EvLog(<<"Received: ">> \o line)>>

\* the events #parseLine emits, in order
ParseLine(line) ==
  LET match == Match(line)
  IN  <<EvLog(<<"Received: ">> \o line),
        IF match.ok
        THEN EvReading(line, ParseFloat(match.g1), match.g3)
        ELSE EvReading(line, Null, <<>>)>>

\* ------------------------------------------------------------ TextDecoder
RECURSIVE Decode(_, _)
\* decoder.decode(value, {stream: true}): pending is the lead byte held back
\* from the previous chunk (<<>> or <<"hi">>)
Decode(pending, bytes) ==
  IF bytes = <<>> THEN [text |-> <<>>, pending |-> pending]
  ELSE
    LET b == Head(bytes)
        rest == Tail(bytes)
    IN  IF pending # <<>>
        THEN IF b = "lo"
             THEN LET r == Decode(<<>>, rest)
                  IN  [text |-> <<"deg">> \o r.text, pending |-> r.pending]
             ELSE LET r == Decode(<<>>, bytes)
                  IN  [text |-> <<"FFFD">> \o r.text, pending |-> r.pending]
        ELSE IF b = "hi" THEN Decode(<<"hi">>, rest)
        ELSE LET r == Decode(<<>>, rest)
             IN  [text |-> <<(IF b = "lo" THEN "FFFD" ELSE b)>> \o r.text,
                  pending |-> r.pending]

\* ------------------------------------------------------------ line framing
RECURSIVE Split(_)
\* buffer.split('\n')
Split(s) ==
  LET lfs == {i \in 1..Len(s) : s[i] = "LF"}
  IN  IF lfs = {} THEN <<s>>
      ELSE <<SubSeq(s, 1, SetMin(lfs) - 1)>>
             \o Split(SubSeq(s, SetMin(lfs) + 1, Len(s)))

\* line.replace(/\r/g, '')
StripCR(line) == SelectSeq(line, LAMBDA c : c # "CR")

\* String.prototype.trim
Trim(s) ==
  LET keep == {i \in 1..Len(s) : s[i] \notin WhiteSpace}
  IN  IF keep = {} THEN <<>> ELSE SubSeq(s, SetMin(keep), SetMax(keep))

RECURSIVE EmitLinesStopAtBlank(_)
\* the for loop leaving at the first empty line
EmitLinesStopAtBlank(lines) ==
  IF lines = <<>> THEN <<>>
  ELSE LET trimmed == Trim(StripCR(Head(lines)))
       IN  IF trimmed # <<>>
           THEN ParseLine(trimmed) \o EmitLinesStopAtBlank(Tail(lines))
           ELSE <<>>

RECURSIVE EmitLines(_)
\* for (const line of lines) { trimmed = ...; if (trimmed) this.#parseLine(trimmed) }
EmitLines(lines) ==
  IF lines = <<>> THEN <<>>
  ELSE LET trimmed == Trim(StripCR(Head(lines)))
       IN  (IF trimmed # <<>> THEN ParseLine(trimmed) ELSE <<>>)
             \o EmitLines(Tail(lines))

\* the read loop's locals before the first read
NewLoop == [decoder |-> <<>>, buffer |-> <<>>]

ReadChunkDropRest(l, value) ==
  LET dec == Decode(l.decoder, value)
      lines == Split(l.buffer \o dec.text)
  IN  [decoder |-> dec.pending,
       buffer |-> <<>>,
       out |-> EmitLines(SubSeq(lines, 1, Len(lines) - 1))]

ReadChunkNoStream(l, value) ==
  LET dec == Decode(<<>>, value)
      text == dec.text \o (IF dec.pending # <<>> THEN <<"FFFD">> ELSE <<>>)
      lines == Split(l.buffer \o text)
  IN  [decoder |-> <<>>,
       buffer |-> lines[Len(lines)],
       out |-> EmitLines(SubSeq(lines, 1, Len(lines) - 1))]

\* one iteration of the read loop on a chunk: the new locals and the events
ReadChunk(l, value) ==
  LET dec == Decode(l.decoder, value)
      lines == Split(l.buffer \o dec.text)
  IN  [decoder |-> dec.pending,
       buffer |-> lines[Len(lines)],
       out |-> EmitLines(SubSeq(lines, 1, Len(lines) - 1))]

\* =================================================================
\* The transport and the browser objects it drives.
\*
\* JavaScript runs one task at a time: a call from the application or the
\* completion of an I/O operation runs the code up to its next await, and a
\* continuation whose promise is already settled (a microtask) runs before the
\* next task.  Each code segment below is an operator from the state m (a
\* record of all the variables) to the state after it, so that the segments
\* of one task compose in the order the code runs them.
\* =================================================================
\* the calls the application makes plus the read results the devices produce
MaxOps == 4

ConnIds == 1..MaxOps
DiscIds == 1..MaxOps
SendIds == 1..MaxOps

\* the serial devices the user can pick in the port chooser
Ports == {"A", "B"}
NULL == "null"

\* the chunks the device delivers in the lifecycle specification
Chunks == {<<"1", "LF">>, <<"LF", "g", "LF">>}
\* the commands the application sends: one padded, one already terminated
Commands == {<<"SP", "S", "I">>, <<"Z", "CR", "LF">>}

VARIABLES
  port,             \* #port: NULL or a port
  writer,           \* #writer: 0 (null) or the writer made by connect call i
  reader,           \* #reader: 0 (null) or the reader made by read loop k
  readLoopRunning,  \* #readLoopRunning
  ports,            \* each SerialPort's state
  readers,          \* each reader object: its state and its port
  writers,          \* each writer object: its state and its port
  connects,         \* each connect() call
  loops,            \* each #readLoop() call (numbered by its connect call)
  disconnects,      \* each disconnect() call
  sends,            \* each send() call
  events,           \* every event dispatched, in order, with its emitter
  written,          \* every chunk written to a device, in order
  reads             \* the number of read results the devices have produced

tvars == <<port, writer, reader, readLoopRunning, ports, readers, writers,
           connects, loops, disconnects, sends, events, written, reads>>

Cur ==
  [port |-> port, writer |-> writer, reader |-> reader,
   readLoopRunning |-> readLoopRunning, ports |-> ports, readers |-> readers,
   writers |-> writers, connects |-> connects, loops |-> loops,
   disconnects |-> disconnects, sends |-> sends, events |-> events,
   written |-> written, reads |-> reads]

Apply(m) ==
  /\ port' = m.port
  /\ writer' = m.writer
  /\ reader' = m.reader
  /\ readLoopRunning' = m.readLoopRunning
  /\ ports' = m.ports
  /\ readers' = m.readers
  /\ writers' = m.writers
  /\ connects' = m.connects
  /\ loops' = m.loops
  /\ disconnects' = m.disconnects
  /\ sends' = m.sends
  /\ events' = m.events
  /\ written' = m.written
  /\ reads' = m.reads

\* the state after construction
TransportInit ==
  /\ port = NULL
  /\ writer = 0
  /\ reader = 0
  /\ readLoopRunning = FALSE
  /\ ports = [p \in Ports |-> "closed"]
  /\ readers = [r \in ConnIds |-> [state |-> "none", port |-> NULL]]
  /\ writers = [w \in ConnIds |-> [state |-> "none", port |-> NULL]]
  /\ connects = [i \in ConnIds |->
                   [pc |-> "idle", on |-> NULL, cause |-> "none", thrown |-> "none"]]
  /\ loops = [k \in ConnIds |->
                [pc |-> "none", on |-> 0, decoder |-> <<>>, buffer |-> <<>>]]
  /\ disconnects = [j \in DiscIds |->
                      [pc |-> "idle", on |-> NULL, tried |-> <<>>, failed |-> {}]]
  /\ sends = [k \in SendIds |-> [pc |-> "idle", cmd |-> <<>>, on |-> 0]]
  /\ events = <<>>
  /\ written = <<>>
  /\ reads = 0

\* this.#emit(type, detail), tagged with the call that emits
Emit(m, src, id, ev) ==
  [m EXCEPT !.events = Append(@, [ev |-> ev, src |-> src, id |-> id])]

RECURSIVE EmitAll(_, _, _, _)
EmitAll(m, src, id, evs) ==
  IF evs = <<>> THEN m
  ELSE EmitAll(Emit(m, src, id, Head(evs)), src, id, Tail(evs))

\* a settled promise has a continuation waiting: microtasks run first
Ready(m) == \E k \in ConnIds : m.loops[k].pc \in {"done", "fail"}

\* ------------------------------------------------------ the browser objects
\* reader.releaseLock(): the lock is dropped and pending reads are rejected
ReleaseReader(m, r) ==
  [m EXCEPT
     !.readers[r].state = "released",
     !.loops = [k \in ConnIds |->
                  IF @[k].pc = "read" /\ @[k].on = r
                  THEN [@[k] EXCEPT !.pc = "fail"] ELSE @[k]]]

\* reader.cancel(): the stream closes and pending reads resolve with done
CancelReader(m, r) ==
  IF m.readers[r].state # "active" THEN m
  ELSE [m EXCEPT
          !.readers[r].state = "closed",
          !.loops = [k \in ConnIds |->
                       IF @[k].pc = "read" /\ @[k].on = r
                       THEN [@[k] EXCEPT !.pc = "done"] ELSE @[k]]]

\* the port has closed: its streams are gone
PortClosed(m, p) ==
  LET gone == {r \in ConnIds : m.readers[r].port = p
                                /\ m.readers[r].state \in {"active", "closed", "errored"}}
  IN  [m EXCEPT
         !.ports[p] = "closed",
         !.readers = [r \in ConnIds |->
                        IF r \in gone THEN [@[r] EXCEPT !.state = "dead"] ELSE @[r]],
         !.writers = [w \in ConnIds |->
                        IF @[w].port = p /\ @[w].state = "active"
                        THEN [@[w] EXCEPT !.state = "dead"] ELSE @[w]],
         !.loops = [k \in ConnIds |->
                      IF @[k].pc = "read" /\ @[k].on \in gone
                      THEN [@[k] EXCEPT !.pc = "done"] ELSE @[k]]]

\* ---------------------------------------------------------------- #readLoop
\* finally { try { this.#reader.releaseLock() } catch (_) {} this.#reader = null }
LoopFinally(m, k) ==
  LET m1 == IF m.reader # 0 THEN ReleaseReader(m, m.reader) ELSE m
  IN  [m1 EXCEPT !.reader = 0, !.loops[k].pc = "ended"]

\* the catch without its test of #readLoopRunning
LoopCatchAlways(m, k) ==
  LoopFinally(Emit(m, "readLoop", k, EvError(<<"Read error: ">>)), k)

\* catch (err) { if (this.#readLoopRunning) emit('error', ...) } finally ...
LoopCatch(m, k) ==
  LoopFinally(IF m.readLoopRunning
              THEN Emit(m, "readLoop", k, EvError(<<"Read error: ">>))
              ELSE m, k)

\* while (this.#readLoopRunning) { ... await this.#reader.read() : the loop
\* condition and the next read call
LoopTop(m, k) ==
  IF ~m.readLoopRunning THEN LoopFinally(m, k)
  ELSE IF m.reader = 0 THEN LoopCatch(m, k)
  ELSE LET st == m.readers[m.reader].state
       IN  [m EXCEPT
              !.loops[k].on = m.reader,
              !.loops[k].pc = CASE st = "active" -> "read"
                                [] st \in {"closed", "dead"} -> "done"
                                [] OTHER -> "fail"]

\* #readLoop() up to its first await; rok: the port still has a readable stream
LoopStart(m, k, rok) ==
  LET q == m.port
      locked == \E r \in ConnIds :
                  m.readers[r].state = "active" /\ m.readers[r].port = q
  IN  IF ~rok \/ locked
      THEN [m EXCEPT !.loops[k].pc = "rejected"]
      ELSE LoopTop([m EXCEPT
                      !.readers[k] = [state |-> "active", port |-> q],
                      !.reader = k,
                      !.readLoopRunning = TRUE,
                      !.loops[k] = [pc |-> "run", on |-> 0,
                                    decoder |-> <<>>, buffer |-> <<>>]], k)

\* read() resolved with a chunk: if (value) { ... } and back to the loop top
LoopChunk(m, k, value) ==
  LET l == ReadChunk(m.loops[k], value)
      m1 == [m EXCEPT !.loops[k].pc = "run",
                      !.loops[k].decoder = l.decoder,
                      !.loops[k].buffer = l.buffer]
  IN  LoopTop(EmitAll(m1, "readLoop", k, l.out), k)

\* read() resolved with done (break) or rejected (catch)
LoopResume(m, k) ==
  IF m.loops[k].pc = "done"
  THEN LoopFinally([m EXCEPT !.loops[k].pc = "run"], k)
  ELSE LoopCatch([m EXCEPT !.loops[k].pc = "run"], k)

\* ------------------------------------------------------------------ connect
ConnectCatchSwallow(m, i) ==
  LET err == m.connects[i].cause
  IN  [Emit(m, "connect", i, EvError(<<"Connect failed: ", err>>))
         EXCEPT !.connects[i].pc = "ok"]

\* catch (err) { emit('error', 'Connect failed: ' + err.message); throw err }
ConnectCatch(m, i) ==
  LET err == m.connects[i].cause
  IN  [Emit(m, "connect", i, EvError(<<"Connect failed: ", err>>))
         EXCEPT !.connects[i].pc = "failed", !.connects[i].thrown = err]

\* a step of connect() throws or rejects with err
ConnectRaise(m, i, err) ==
  ConnectCatch([m EXCEPT !.connects[i].cause = err], i)

\* no other call in progress, nothing held
Idle(m) ==
  /\ m.port = NULL /\ m.writer = 0 /\ m.reader = 0
  /\ \A i \in ConnIds : m.connects[i].pc \notin {"requestPort", "open"}
  /\ \A j \in DiscIds : m.disconnects[j].pc \notin {"cancel", "close"}
  /\ \A p \in Ports : m.ports[p] = "closed"

\* connect() up to await navigator.serial.requestPort()
ConnectCall(m, i) ==
  [m EXCEPT !.connects[i].pc = "requestPort"]

\* requestPort() resolved with p: this.#port = p; await this.#port.open(...)
ConnectGotPort(m, i, p) ==
  LET m1 == [m EXCEPT !.port = p]
  IN  IF m1.ports[p] # "closed" THEN ConnectRaise(m1, i, "InvalidStateError")
      ELSE [m1 EXCEPT !.ports[p] = "opening",
                      !.connects[i].pc = "open", !.connects[i].on = p]

ConnectOpenedLogFirst(m, i, wok, rok) ==
  LET q == m.port
      canWrite == /\ q # NULL
                  /\ m.ports[q] = "opened"
                  /\ wok
                  /\ ~\E w \in ConnIds :
                        m.writers[w].state = "active" /\ m.writers[w].port = q
  IN  IF ~canWrite THEN ConnectRaise(m, i, "TypeError")
      ELSE LET m1 == [m EXCEPT !.writers[i] = [state |-> "active", port |-> q],
                               !.writer = i]
               m2 == Emit(m1, "connect", i, EvLog(<<"Serial port opened (9600 8N1)">>))
               m3 == Emit(m2, "connect", i, EvPlain("connected"))
               m4 == LoopStart(m3, i, rok)
           IN  [m4 EXCEPT !.connects[i].pc = "ok"]

\* open() resolved: the writer, the two events, the read loop
\* wok, rok: the port still has its writable and readable stream
ConnectOpened(m, i, wok, rok) ==
  LET q == m.port
      canWrite == /\ q # NULL
                  /\ m.ports[q] = "opened"
                  /\ wok
                  /\ ~\E w \in ConnIds :
                        m.writers[w].state = "active" /\ m.writers[w].port = q
  IN  IF ~canWrite THEN ConnectRaise(m, i, "TypeError")
      ELSE LET m1 == [m EXCEPT !.writers[i] = [state |-> "active", port |-> q],
                               !.writer = i]
               m2 == Emit(m1, "connect", i, EvPlain("connected"))
               m3 == Emit(m2, "connect", i, EvLog(<<"Serial port opened (9600 8N1)">>))
               m4 == LoopStart(m3, i, rok)
           IN  [m4 EXCEPT !.connects[i].pc = "ok"]

\* --------------------------------------------------------------- disconnect
DisconnectFailed(m, j, step) ==
  [m EXCEPT !.disconnects[j].failed = @ \cup {step}]

\* this.#emit('disconnected'); this.#emit('log', ...)
DisconnectEnd(m, j) ==
  LET m1 == Emit(m, "disconnect", j, EvPlain("disconnected"))
      m2 == Emit(m1, "disconnect", j, EvLog(<<"Serial port closed">>))
  IN  [m2 EXCEPT !.disconnects[j].pc = "done"]

DisconnectCloseCatchSilent(m, j) ==
  DisconnectFailed(m, j, "port")

\* catch (err) { emit('error', 'Close error: ' + err.message) }
DisconnectCloseCatch(m, j) ==
  DisconnectFailed(Emit(m, "disconnect", j, EvError(<<"Close error: ">>)), j, "port")

\* try { if (this.#port) { await this.#port.close(); ...
DisconnectPortStep(m, j) ==
  LET m1 == [m EXCEPT !.disconnects[j].tried = Append(@, "port")]
      p == m1.port
  IN  IF p = NULL THEN DisconnectEnd(m1, j)
      ELSE IF m1.ports[p] # "opened"
      THEN DisconnectEnd(DisconnectCloseCatch(m1, j), j)
      ELSE [m1 EXCEPT !.ports[p] = "closing",
                      !.disconnects[j].pc = "close", !.disconnects[j].on = p]

\* try { if (this.#writer) { releaseLock(); this.#writer = null } } catch (_) {}
\* wok: releaseLock() does not throw
DisconnectWriterStep(m, j, wok) ==
  LET m1 == [m EXCEPT !.disconnects[j].tried = Append(@, "writer")]
      m2 == IF m1.writer = 0 THEN m1
            ELSE IF wok
            THEN [m1 EXCEPT !.writers[m1.writer].state = "released", !.writer = 0]
            ELSE DisconnectFailed(m1, j, "writer")
  IN  DisconnectPortStep(m2, j)

\* disconnect() up to its first await
DisconnectCall(m, j, wok) ==
  LET m1 == [m EXCEPT !.readLoopRunning = FALSE,
                      !.disconnects[j].pc = "run",
                      !.disconnects[j].tried = <<"reader">>]
  IN  IF m1.reader # 0
      THEN [CancelReader(m1, m1.reader) EXCEPT !.disconnects[j].pc = "cancel"]
      ELSE DisconnectWriterStep(m1, j, wok)

DisconnectCancelledAbort(m, j, ok, wok) ==
  IF ok /\ m.reader # 0
  THEN DisconnectWriterStep([[ReleaseReader(m, m.reader) EXCEPT !.reader = 0]
                               EXCEPT !.disconnects[j].pc = "run"], j, wok)
  ELSE DisconnectEnd(DisconnectFailed(m, j, "reader"), j)

\* cancel() settled: this.#reader.releaseLock(); this.#reader = null, or catch
DisconnectCancelled(m, j, ok, wok) ==
  LET m1 == IF ok /\ m.reader # 0
            THEN [ReleaseReader(m, m.reader) EXCEPT !.reader = 0]
            ELSE DisconnectFailed(m, j, "reader")
  IN  DisconnectWriterStep([m1 EXCEPT !.disconnects[j].pc = "run"], j, wok)

\* close() settled, the catch's event emitted after those that end disconnect()
DisconnectClosedErrorLast(m, j, ok) ==
  LET p == m.disconnects[j].on
      m0 == [m EXCEPT !.disconnects[j].pc = "run"]
  IN  IF ok THEN DisconnectEnd([PortClosed(m0, p) EXCEPT !.port = NULL], j)
      ELSE DisconnectFailed(
             Emit(DisconnectEnd([m0 EXCEPT !.ports[p] = "opened"], j),
                  "disconnect", j, EvError(<<"Close error: ">>)), j, "port")

\* close() settled: this.#port = null, or catch
DisconnectClosed(m, j, ok) ==
  LET p == m.disconnects[j].on
      m0 == [m EXCEPT !.disconnects[j].pc = "run"]
  IN  IF ok THEN DisconnectEnd([PortClosed(m0, p) EXCEPT !.port = NULL], j)
      ELSE DisconnectEnd(DisconnectCloseCatch([m0 EXCEPT !.ports[p] = "opened"], j), j)

\* --------------------------------------------------------------------- send
\* new TextEncoder().encode(text)
Encode(text) ==
  LET Bytes(c) == IF c = "deg" THEN <<"hi", "lo">> ELSE <<c>>
      F[n \in 0..Len(text)] == IF n = 0 THEN <<>> ELSE F[n - 1] \o Bytes(text[n])
  IN  F[Len(text)]

\* send(cmd) without the guard's event: the call fails when there is no writer
SendCallThrow(m, k, cmd) ==
  IF m.writer = 0
  THEN [m EXCEPT !.sends[k].pc = "rejected", !.sends[k].cmd = cmd]
  ELSE [m EXCEPT !.sends[k].cmd = cmd, !.sends[k].on = m.writer,
                 !.sends[k].pc = IF m.writers[m.writer].state = "active"
                                 THEN "write" ELSE "rejected"]

\* send(cmd) up to await this.#writer.write(data)
SendCall(m, k, cmd) ==
  IF m.writer = 0
  THEN [Emit(m, "send", k, EvError(<<"Not connected">>))
          EXCEPT !.sends[k].pc = "done", !.sends[k].cmd = cmd]
  ELSE [m EXCEPT !.sends[k].cmd = cmd, !.sends[k].on = m.writer,
                 !.sends[k].pc = IF m.writers[m.writer].state = "active"
                                 THEN "write" ELSE "rejected"]

\* send(cmd) writing cmd + '\r\n' without trimming it
SendWrittenNoTrim(m, k, ok) ==
  LET cmd == m.sends[k].cmd
      w == m.sends[k].on
  IN  IF ok
      THEN [Emit(m, "send", k, EvLog(<<"Sent: ">> \o Trim(cmd)))
              EXCEPT !.sends[k].pc = "done",
                     !.written = Append(@, [port |-> m.writers[w].port,
                                            by |-> k,
                                            data |-> Encode(cmd \o <<"CR", "LF">>)])]
      ELSE [m EXCEPT !.sends[k].pc = "rejected"]

\* write() settled: emit('log', 'Sent: ' + cmd.trim()), or send() rejects
SendWritten(m, k, ok) ==
  LET cmd == m.sends[k].cmd
      w == m.sends[k].on
  IN  IF ok
      THEN [Emit(m, "send", k, EvLog(<<"Sent: ">> \o Trim(cmd)))
              EXCEPT !.sends[k].pc = "done",
                     !.written = Append(@, [port |-> m.writers[w].port,
                                            by |-> k,
                                            data |-> Encode(Trim(cmd) \o <<"CR", "LF">>)])]
      ELSE [m EXCEPT !.sends[k].pc = "rejected"]

\* the device fails: the stream errors and pending reads are rejected
StreamError(m, r) ==
  [m EXCEPT
     !.readers[r].state = "errored",
     !.loops = [k \in ConnIds |->
                  IF @[k].pc = "read" /\ @[k].on = r
                  THEN [@[k] EXCEPT !.pc = "fail"] ELSE @[k]]]

\* =================================================================
\* The harnesses of the two pure parts: the framing of a byte stream cut into
\* chunks, and the parser on one line; and the ConnectionManager that holds
\* the transport.
\* =================================================================
VARIABLES
  stream,    \* the bytes the device sends
  fed,       \* how many of them the read loop has received
  framer,    \* the read loop's decoder and buffer
  emitted,   \* the events the read loop has emitted
  split,     \* where chunks so far have ended: "line", "crlf", "char"
  pline,     \* the line given to #parseLine
  parsed,    \* the events #parseLine emitted for it
  manager    \* the ConnectionManager's record of the connects it refused

\* the application's objects
VARIABLES
  recorder,  \* the Recorder: #data, #recording and what download() returned
  recCalls,  \* the calls made on the Recorder, in order
  chart,     \* the ChartManager: #data and #timeWindow
  now,       \* the clock, in milliseconds
  chartHist, \* the points added since the last clear(), and the last call
  app        \* main.js: its variables, the timers, the buttons' state

avars == <<recorder, recCalls, chart, now, chartHist, app>>

hvars == <<stream, fed, framer, emitted, split, pline, parsed, manager, avars>>
vars == <<tvars, hvars>>

\* the manager has refused no connect: how many it refused, and the events
\* and the writes there were at the last refusal
ManagerInit == [refused |-> 0, events |-> 0, written |-> 0]

\* ChartManager's #timeWindow = 300 (seconds) and the milliseconds of a second
DefaultTimeWindow == 300
MsPerSecond == 1000

\* main.js once the module is loaded: nothing connected, no timer set, the
\* DOMContentLoaded handler not run yet; conn is the ConnectionManager's state;
\* quiet, last and steps record what has happened
MainInit ==
  [loaded |-> FALSE, hasChart |-> FALSE,
   conn |-> "Disconnected", closing |-> FALSE,
   measurementInterval |-> 0, measurementTimeout |-> 0, demoInterval |-> 0,
   timers |-> {}, nextTimer |-> 1,
   uiConnected |-> FALSE, uiMeasuring |-> FALSE, uiRecording |-> FALSE,
   readout |-> [n |-> 0, value |-> Null, unit |-> <<>>],
   stats |-> 0, polls |-> 0,
   quiet |-> FALSE, last |-> "none", steps |-> 0]

\* the Recorder and the ChartManager after construction
AppInit ==
  /\ app = MainInit
  /\ recorder = [data |-> <<>>, recording |-> FALSE, returned |-> "none"]
  /\ recCalls = <<>>
  /\ chart = [data |-> <<>>, timeWindow |-> DefaultTimeWindow]
  /\ now = 0
  /\ chartHist = [added |-> <<>>, last |-> [op |-> "none", value |-> <<>>, n |-> 0]]

HarnessIdle ==
  /\ AppInit
  /\ manager = ManagerInit
  /\ stream = <<>>
  /\ fed = 0
  /\ framer = NewLoop
  /\ emitted = <<>>
  /\ split = {}
  /\ pline = <<>>
  /\ parsed = <<>>

SeqsUpTo(alphabet, n) == UNION {[1..k -> alphabet] : k \in 0..n}

ByteAlphabet == {"1", "SP", "CR", "LF", "hi", "lo"}
Streams == SeqsUpTo(ByteAlphabet, MaxStream)

LineAlphabet == {"-", "1", "0", ".", "SP", "g", "%"}
ExampleLines ==
  {<<"S", "SP", "S", "SP", "SP", "SP", "SP", "SP", "1", "2", "0", ".", "4", "5", "SP", "g">>,
   <<"1", "2", "0", ".", "4", "5">>,
   <<"E", "S">>,
   <<"-", "3", ".", "2", "SP", "%">>}
\* what the read loop passes to #parseLine: trimmed and not empty
Lines ==
  {l \in SeqsUpTo(LineAlphabet, MaxLine) : l # <<>> /\ Trim(l) = l} \cup ExampleLines

\* ----------------------------------------------------------------- actions
\* the calls made and the read results produced so far
Ops ==
  Cardinality({i \in ConnIds : connects[i].pc # "idle"})
    + Cardinality({j \in DiscIds : disconnects[j].pc # "idle"})
    + Cardinality({k \in SendIds : sends[k].pc # "idle"})
    + reads

DoConnect ==
  /\ ~Ready(Cur)
  /\ Ops < MaxOps
  /\ \E i \in ConnIds :
       /\ connects[i].pc = "idle"
       /\ \A h \in 1..(i - 1) : connects[h].pc # "idle"
       /\ Apply(ConnectCall(Cur, i))
  /\ UNCHANGED hvars

PortChosen ==
  /\ ~Ready(Cur)
  /\ \E i \in ConnIds, p \in Ports :
       /\ connects[i].pc = "requestPort"
       /\ Apply(ConnectGotPort(Cur, i, p))
  /\ UNCHANGED hvars

PortRefused ==
  /\ ~Ready(Cur)
  /\ \E i \in ConnIds :
       /\ connects[i].pc = "requestPort"
       /\ Apply(ConnectRaise(Cur, i, "NotFoundError"))
  /\ UNCHANGED hvars

OpenDone ==
  /\ ~Ready(Cur)
  /\ \E i \in ConnIds, wok \in BOOLEAN, rok \in BOOLEAN :
       /\ connects[i].pc = "open"
       /\ Apply(ConnectOpened([Cur EXCEPT !.ports[connects[i].on] = "opened"],
                              i, wok, rok))
  /\ UNCHANGED hvars

OpenFailed ==
  /\ ~Ready(Cur)
  /\ \E i \in ConnIds :
       /\ connects[i].pc = "open"
       /\ Apply(ConnectRaise([Cur EXCEPT !.ports[connects[i].on] = "closed"],
                             i, "NetworkError"))
  /\ UNCHANGED hvars

ChunkArrives ==
  /\ ~Ready(Cur)
  /\ Ops < MaxOps
  /\ \E k \in ConnIds, value \in Chunks :
       /\ loops[k].pc = "read"
       /\ readers[loops[k].on].state = "active"
       /\ Apply(LoopChunk([Cur EXCEPT !.reads = @ + 1], k, value))
  /\ UNCHANGED hvars

ReadError ==
  /\ ~Ready(Cur)
  /\ Ops < MaxOps
  /\ \E r \in ConnIds :
       /\ readers[r].state = "active"
       /\ Apply(StreamError([Cur EXCEPT !.reads = @ + 1], r))
  /\ UNCHANGED hvars

Microtask ==
  /\ \E k \in ConnIds :
       /\ loops[k].pc \in {"done", "fail"}
       /\ Apply(LoopResume(Cur, k))
  /\ UNCHANGED hvars

DoDisconnect ==
  /\ ~Ready(Cur)
  /\ Ops < MaxOps
  /\ \E j \in DiscIds, wok \in BOOLEAN :
       /\ disconnects[j].pc = "idle"
       /\ \A h \in 1..(j - 1) : disconnects[h].pc # "idle"
       /\ Apply(DisconnectCall(Cur, j, wok))
  /\ UNCHANGED hvars

CancelSettled ==
  /\ ~Ready(Cur)
  /\ \E j \in DiscIds, ok \in BOOLEAN, wok \in BOOLEAN :
       /\ disconnects[j].pc = "cancel"
       /\ Apply(DisconnectCancelled(Cur, j, ok, wok))
  /\ UNCHANGED hvars

CloseSettled ==
  /\ ~Ready(Cur)
  /\ \E j \in DiscIds, ok \in BOOLEAN :
       /\ disconnects[j].pc = "close"
       /\ Apply(DisconnectClosed(Cur, j, ok))
  /\ UNCHANGED hvars

DoSend ==
  /\ ~Ready(Cur)
  /\ Ops < MaxOps
  /\ \E k \in SendIds, cmd \in Commands :
       /\ sends[k].pc = "idle"
       /\ \A h \in 1..(k - 1) : sends[h].pc # "idle"
       /\ Apply(SendCall(Cur, k, cmd))
  /\ UNCHANGED hvars

WriteSettled ==
  /\ ~Ready(Cur)
  /\ \E k \in SendIds, ok \in BOOLEAN :
       /\ sends[k].pc = "write"
       /\ ok => writers[sends[k].on].state \in {"active", "released"}
       /\ Apply(SendWritten(Cur, k, ok))
  /\ UNCHANGED hvars

Init == TransportInit /\ HarnessIdle

Next ==
  \/ DoConnect
  \/ PortChosen
  \/ PortRefused
  \/ OpenDone
  \/ OpenFailed
  \/ ChunkArrives
  \/ ReadError
  \/ Microtask
  \/ DoDisconnect
  \/ CancelSettled
  \/ CloseSettled
  \/ DoSend
  \/ WriteSettled

Spec == Init /\ [][Next]_vars

\* ------------------------------------------------- the framing harness
InitFramer ==
  /\ TransportInit
  /\ AppInit
  /\ manager = ManagerInit
  /\ stream \in Streams
  /\ fed = 0
  /\ framer = NewLoop
  /\ emitted = <<>>
  /\ split = {}
  /\ pline = <<>>
  /\ parsed = <<>>

\* what a chunk boundary after byte c of the stream s falls into
CutKinds(s, c) ==
  IF c >= Len(s) THEN {}
  ELSE (IF s[c] # "LF" THEN {"line"} ELSE {})
         \cup (IF s[c] = "CR" /\ s[c + 1] = "LF" THEN {"crlf"} ELSE {})
         \cup (IF s[c] = "hi" /\ s[c + 1] = "lo" THEN {"char"} ELSE {})

\* the next n bytes of the stream arrive as one chunk
FeedChunk ==
  /\ \E n \in 1..(Len(stream) - fed) :
       LET l == ReadChunk(framer, SubSeq(stream, fed + 1, fed + n))
       IN  /\ framer' = [decoder |-> l.decoder, buffer |-> l.buffer]
           /\ emitted' = emitted \o l.out
           /\ fed' = fed + n
           /\ split' = split \cup CutKinds(stream, fed + n)
  /\ UNCHANGED <<tvars, stream, pline, parsed, manager, avars>>

NextFramer == FeedChunk

SpecFramer == InitFramer /\ [][NextFramer]_vars

\* ------------------------------------------------- the parser harness
InitParse ==
  /\ TransportInit
  /\ AppInit
  /\ manager = ManagerInit
  /\ stream = <<>>
  /\ fed = 0
  /\ framer = NewLoop
  /\ emitted = <<>>
  /\ split = {}
  /\ pline \in Lines
  /\ parsed = <<>>

Parse ==
  /\ parsed = <<>>
  /\ parsed' = ParseLine(pline)
  /\ UNCHANGED <<tvars, stream, fed, framer, emitted, split, pline, manager, avars>>

NextParse == Parse

SpecParse == InitParse /\ [][NextParse]_vars

\* ------------------------------------------------- the ConnectionManager
\* The manager holds the active transport, passes disconnect() and send() on to
\* it and follows its `connected` and `disconnected` events.
\* the last `connected` or `disconnected` event the transport emitted
LastLifecycle ==
  LET at == {n \in 1..Len(events) : events[n].ev.type \in {"connected", "disconnected"}}
  IN  IF at = {} THEN "none" ELSE events[SetMax(at)].ev.type

\* ConnectionState
ManagerState ==
  IF \E i \in ConnIds : connects[i].pc \in {"requestPort", "open"} THEN "Connecting"
  ELSE IF LastLifecycle = "connected" THEN "Connected"
  ELSE "Disconnected"

\* the calls made on the manager and the read results so far
MgrOps == Ops + manager.refused

\* a newly constructed transport: its fields as declared
NewTransport(m) ==
  [m EXCEPT !.port = NULL, !.writer = 0, !.reader = 0, !.readLoopRunning = FALSE]

\* the calls on the previous transport have returned
AtRest ==
  /\ \A j \in DiscIds : disconnects[j].pc \notin {"cancel", "close"}
  /\ \A k \in ConnIds : loops[k].pc \notin {"run", "read", "done", "fail"}

\* connectSerial() that goes on to connect although a transport is active
AlreadyConnectedReconnect(m, i) == ConnectCall(m, i)

\* connectSerial() while Connected: fails as already connected, and the
\* active transport is not touched
AlreadyConnected(m, i) == m

\* connectSerial() while Disconnected: a new transport, and its connect()
MgrConnectSerial ==
  /\ ~Ready(Cur)
  /\ MgrOps < MaxOps
  /\ ManagerState = "Disconnected"
  /\ AtRest
  /\ \E i \in ConnIds :
       /\ connects[i].pc = "idle"
       /\ \A h \in 1..(i - 1) : connects[h].pc # "idle"
       /\ Apply(ConnectCall(NewTransport(Cur), i))
  /\ UNCHANGED hvars

MgrConnectRefused ==
  /\ ~Ready(Cur)
  /\ MgrOps < MaxOps
  /\ ManagerState = "Connected"
  /\ \E i \in ConnIds :
       /\ connects[i].pc = "idle"
       /\ \A h \in 1..(i - 1) : connects[h].pc # "idle"
       /\ Apply(AlreadyConnected(Cur, i))
  /\ manager' = [refused |-> manager.refused + 1,
                 events |-> Len(events), written |-> Len(written)]
  /\ UNCHANGED <<stream, fed, framer, emitted, split, pline, parsed, avars>>

\* disconnect() and send(command) are passed on to the active transport
MgrDisconnect ==
  /\ ManagerState # "Disconnected"
  /\ DoDisconnect

MgrSend ==
  /\ ManagerState # "Disconnected"
  /\ DoSend

NextManager ==
  \/ MgrConnectSerial
  \/ MgrConnectRefused
  \/ MgrDisconnect
  \/ MgrSend
  \/ PortChosen
  \/ PortRefused
  \/ OpenDone
  \/ OpenFailed
  \/ ChunkArrives
  \/ ReadError
  \/ Microtask
  \/ CancelSettled
  \/ CloseSettled
  \/ WriteSettled

SpecManager == Init /\ [][NextManager]_vars

\* ------------------------------------------------------------ the Recorder
\* the calls made on the Recorder
MaxRecCalls == 6

\* the variables of the transport's harnesses
pvars == <<stream, fed, framer, emitted, split, pline, parsed, manager, app>>

\* the readings handed to the Recorder: 1 and 0.5
RecValues == {<<1, 0>>, <<5, 1>>}

\* start()
RecorderStart(r) == [r EXCEPT !.data = <<>>, !.recording = TRUE]

\* stop()
RecorderStop(r) == [r EXCEPT !.recording = FALSE]

\* addReading without its test of #recording
RecorderAddReadingAlways(r, t, value, unit) ==
  [r EXCEPT !.data = Append(@, [timestamp |-> t, value |-> value, unit |-> unit])]

\* addReading(value, unit) at time t
RecorderAddReading(r, t, value, unit) ==
  IF ~r.recording THEN r
  ELSE [r EXCEPT !.data = Append(@, [timestamp |-> t, value |-> value, unit |-> unit])]

\* download(): false when there is no data, else the CSV is saved
RecorderDownload(r) ==
  [r EXCEPT !.returned = IF Len(r.data) = 0 THEN "false" ELSE "true"]

RecStart ==
  /\ Len(recCalls) < MaxRecCalls
  /\ recorder' = RecorderStart(recorder)
  /\ recCalls' = Append(recCalls, "start")
  /\ UNCHANGED <<tvars, pvars, chart, now, chartHist>>

RecStop ==
  /\ Len(recCalls) < MaxRecCalls
  /\ recorder' = RecorderStop(recorder)
  /\ recCalls' = Append(recCalls, "stop")
  /\ UNCHANGED <<tvars, pvars, chart, now, chartHist>>

RecAdd ==
  /\ Len(recCalls) < MaxRecCalls
  /\ \E value \in RecValues :
       recorder' = RecorderAddReading(recorder, Len(recCalls) + 1, value, <<"g">>)
  /\ recCalls' = Append(recCalls, "add")
  /\ UNCHANGED <<tvars, pvars, chart, now, chartHist>>

RecDownload ==
  /\ Len(recCalls) < MaxRecCalls
  /\ recorder' = RecorderDownload(recorder)
  /\ recCalls' = Append(recCalls, "download")
  /\ UNCHANGED <<tvars, pvars, chart, now, chartHist>>

NextRecorder ==
  \/ RecStart
  \/ RecStop
  \/ RecAdd
  \/ RecDownload

SpecRecorder == Init /\ [][NextRecorder]_vars

\* -------------------------------------------------------- the ChartManager
\* the calls made on the ChartManager
MaxChartCalls == 4

\* what the clock advances by between two calls, in milliseconds
Ticks == {0, 1000, 1500}
\* the time windows chosen, in seconds
TimeWindows == {0, 1, 2}
\* the values handed to addReading: the number 1, and null
ChartInputs == {<<1, 0>>, Null}

\* #prune that drops at most one point
PruneFirstOnly(data, seconds, t) ==
  IF Len(data) > 0 /\ data[1].x < t - seconds * MsPerSecond THEN Tail(data) ELSE data

RECURSIVE Prune(_, _, _)
\* #prune(now): while the first point is older than the cutoff, shift it out
Prune(data, seconds, t) ==
  IF Len(data) > 0 /\ data[1].x < t - seconds * MsPerSecond
  THEN Prune(Tail(data), seconds, t)
  ELSE data

\* addReading(value) at time t: only a number is added
ChartAddReading(c, t, value) ==
  IF value = Null THEN c
  ELSE [c EXCEPT !.data = Prune(Append(@, [x |-> t, y |-> value]), c.timeWindow, t)]

\* clear()
ChartClear(c) == [c EXCEPT !.data = <<>>]

\* setTimeWindow(seconds) at time t
ChartSetTimeWindow(c, t, seconds) ==
  [c EXCEPT !.timeWindow = seconds, !.data = Prune(@, seconds, t)]

ChartCalls == chartHist.last.n

ChAdd ==
  /\ ChartCalls < MaxChartCalls
  /\ \E dt \in Ticks, value \in ChartInputs :
       /\ now' = now + dt
       /\ chart' = ChartAddReading(chart, now', value)
       /\ chartHist' = [added |-> IF value = Null THEN chartHist.added
                                  ELSE Append(chartHist.added, [x |-> now', y |-> value]),
                        last |-> [op |-> "addReading", value |-> value,
                                  n |-> ChartCalls + 1]]
  /\ UNCHANGED <<tvars, pvars, recorder, recCalls>>

ChSetTimeWindow ==
  /\ ChartCalls < MaxChartCalls
  /\ \E dt \in Ticks, seconds \in TimeWindows :
       /\ now' = now + dt
       /\ chart' = ChartSetTimeWindow(chart, now', seconds)
       /\ chartHist' = [chartHist EXCEPT !.last = [op |-> "setTimeWindow", value |-> Null,
                                                   n |-> ChartCalls + 1]]
  /\ UNCHANGED <<tvars, pvars, recorder, recCalls>>

ChClear ==
  /\ ChartCalls < MaxChartCalls
  /\ \E dt \in Ticks :
       /\ now' = now + dt
       /\ chart' = ChartClear(chart)
       /\ chartHist' = [added |-> <<>>,
                        last |-> [op |-> "clear", value |-> Null, n |-> ChartCalls + 1]]
  /\ UNCHANGED <<tvars, pvars, recorder, recCalls>>

NextChart ==
  \/ ChAdd
  \/ ChSetTimeWindow
  \/ ChClear

SpecChart == Init /\ [][NextChart]_vars

\* ----------------------------------------------------------------- main.js
\* The application: the handlers main.js wires to the ConnectionManager's
\* events, to the buttons and to its two timers. A handler works on the
\* variables of main.js, the Recorder and the ChartManager; the state of the
\* ConnectionManager (connection.js) follows its specified state machine.
\* StatsTracker (stats.js) is the number of values handed to addValue().
\* The steps taken on the application
MaxAppSteps == 7

\* the `reading` events delivered: those of the lines '1 g' and 'ES'
ReadingEvents ==
  {EvReading(<<"1", "SP", "g">>, <<1, 0>>, <<"g">>),
   EvReading(<<"E", "S">>, Null, <<>>)}
\* a value of the demo: 250 g
DemoValues == {<<250, 0>>}

AppCur == [app |-> app, recorder |-> recorder, chart |-> chart]

AppApply(s) ==
  /\ app' = s.app
  /\ recorder' = s.recorder
  /\ chart' = s.chart

\* ui.js: what the three setters leave in the page
SetConnectionState(s, connected) == [s EXCEPT !.app.uiConnected = connected]
SetMeasurementState(s, active) == [s EXCEPT !.app.uiMeasuring = active]
SetRecordingState(s, active) == [s EXCEPT !.app.uiRecording = active]
UpdateReadout(s, value, unit) ==
  [s EXCEPT !.app.readout = [n |-> @.n + 1, value |-> value, unit |-> unit]]

\* setInterval / setTimeout: a new timer of the kind, and its id
SetTimer(s, kind) ==
  [s EXCEPT !.app.timers = @ \cup {[id |-> s.app.nextTimer, kind |-> kind]},
            !.app.nextTimer = @ + 1]

\* clearInterval / clearTimeout
ClearTimer(s, id) ==
  [s EXCEPT !.app.timers = {t \in @ : t.id # id}]

\* startMeasurement()
StartMeasurement(s) ==
  IF s.app.measurementInterval # 0 THEN s
  ELSE LET s1 == [SetTimer(s, "poll") EXCEPT !.app.measurementInterval = s.app.nextTimer]
           s2 == SetMeasurementState(s1, TRUE)
       IN  [SetTimer(s2, "timeout") EXCEPT !.app.measurementTimeout = s2.app.nextTimer]

\* stopMeasurement()
StopMeasurement(s) ==
  IF s.app.measurementInterval = 0 THEN s
  ELSE LET s1 == ClearTimer(ClearTimer(s, s.app.measurementInterval),
                            s.app.measurementTimeout)
       IN  SetMeasurementState([s1 EXCEPT !.app.measurementInterval = 0,
                                          !.app.measurementTimeout = 0], FALSE)

\* the handler of `connected`
OnConnected(s) == SetConnectionState(s, TRUE)

\* the handler of `disconnected` without its stopMeasurement()
OnDisconnectedKeepPolling(s) == SetConnectionState(s, FALSE)

\* the handler of `disconnected`
OnDisconnected(s) == SetConnectionState(StopMeasurement(s), FALSE)

\* the values reach the chart (if there is one), the statistics, the recorder
AddValue(s, t, value, unit) ==
  LET s1 == IF s.app.hasChart
            THEN [s EXCEPT !.chart = ChartAddReading(@, t, value)] ELSE s
  IN  [s1 EXCEPT !.app.stats = @ + 1,
                 !.recorder = RecorderAddReading(@, t, value, unit)]

\* the handler of `reading` without its test of the value
OnReadingAlways(s, t, value, unit) ==
  AddValue(UpdateReadout(s, value, unit), t, value, unit)

\* the handler of `reading`
OnReading(s, t, value, unit) ==
  LET s1 == UpdateReadout(s, value, unit)
  IN  IF value # Null THEN AddValue(s1, t, value, unit) ELSE s1

\* startDemo()
StartDemo(s) ==
  LET s1 == SetConnectionState(s, TRUE)
  IN  [SetTimer(s1, "demo") EXCEPT !.app.demoInterval = s1.app.nextTimer]

\* stopDemo()
StopDemo(s) ==
  LET s1 == IF s.app.demoInterval # 0
            THEN [ClearTimer(s, s.app.demoInterval) EXCEPT !.app.demoInterval = 0]
            ELSE s
  IN  SetConnectionState(StopMeasurement(s1), FALSE)

\* toggleDemo()
ToggleDemo(s) == IF s.app.demoInterval # 0 THEN StopDemo(s) ELSE StartDemo(s)

\* the callback of the demo's interval
DemoTick(s, t, value) ==
  AddValue(UpdateReadout(s, value, <<"g">>), t, value, <<"g">>)

\* what a step of the application leaves as it is: the transport, its
\* harnesses, and the records of the Recorder's and the ChartManager's calls
xvars == <<tvars, stream, fed, framer, emitted, split, pline, parsed, manager,
           recCalls, now, chartHist>>

\* one more step, and which one
Stepped(s, what) == [s EXCEPT !.app.steps = @ + 1, !.app.last = what]

CanStep == app.loaded /\ app.steps < MaxAppSteps

\* DOMContentLoaded: the handlers are wired, the buttons set, the chart made
\* (or not, when its library did not load)
DomReady ==
  /\ ~app.loaded
  /\ \E ok \in BOOLEAN :
       LET s1 == SetRecordingState(SetMeasurementState(
                   SetConnectionState(AppCur, FALSE), FALSE), FALSE)
       IN  AppApply([s1 EXCEPT !.app.loaded = TRUE, !.app.hasChart = ok])
  /\ UNCHANGED xvars

\* click on Connect (enabled while the page shows no connection):
\* connectSerial() on a Disconnected manager starts to connect; on any other
\* it is rejected and the click's catch drops the failure
ClickConnectSerial ==
  /\ CanStep
  /\ ~app.uiConnected
  /\ app.conn = "Disconnected"
  /\ AppApply(Stepped([AppCur EXCEPT !.app.conn = "Connecting"], "connectSerial"))
  /\ UNCHANGED xvars

\* the transport's connect() succeeded: `connected` is re-emitted
ConnectedEvent ==
  /\ CanStep
  /\ app.conn = "Connecting"
  /\ AppApply(Stepped(OnConnected([AppCur EXCEPT !.app.conn = "Connected"]),
                      "connected"))
  /\ UNCHANGED xvars

\* the transport's connect() failed: an `error` event, which is logged
ConnectFailedEvent ==
  /\ CanStep
  /\ app.conn = "Connecting"
  /\ AppApply(Stepped([AppCur EXCEPT !.app.conn = "Disconnected"], "error"))
  /\ UNCHANGED xvars

\* click on Disconnect (enabled while the page shows a connection):
\* disconnect() of the active transport begins
ClickDisconnect ==
  /\ CanStep
  /\ app.uiConnected
  /\ app.conn = "Connected"
  /\ ~app.closing
  /\ AppApply(Stepped([AppCur EXCEPT !.app.closing = TRUE], "disconnect"))
  /\ UNCHANGED xvars

\* the transport's disconnect() ends: `disconnected` is re-emitted
DisconnectedEvent ==
  /\ CanStep
  /\ app.closing
  /\ LET s1 == [AppCur EXCEPT !.app.conn = "Disconnected", !.app.closing = FALSE,
                              !.app.quiet = TRUE]
     IN  AppApply(Stepped(OnDisconnected(s1), "disconnected"))
  /\ UNCHANGED xvars

\* a `reading` event of the active transport
ReadingEvent ==
  /\ CanStep
  /\ app.conn = "Connected"
  /\ \E e \in ReadingEvents :
       AppApply(Stepped(OnReading(AppCur, now, e.value, e.unit), "reading"))
  /\ UNCHANGED xvars

\* click on Start (disabled while measuring)
ClickStartMeasure ==
  /\ CanStep
  /\ ~app.uiMeasuring
  /\ AppApply(Stepped(StartMeasurement([AppCur EXCEPT !.app.quiet = FALSE]),
                      "startMeasure"))
  /\ UNCHANGED xvars

\* click on Stop (enabled while measuring)
ClickStopMeasure ==
  /\ CanStep
  /\ app.uiMeasuring
  /\ AppApply(Stepped(StopMeasurement(AppCur), "stopMeasure"))
  /\ UNCHANGED xvars

\* the polling interval fires: conn.send('SI')
PollFires ==
  /\ CanStep
  /\ \E t \in app.timers :
       /\ t.kind = "poll"
       /\ AppApply(Stepped([AppCur EXCEPT !.app.polls = @ + 1], "poll"))
  /\ UNCHANGED xvars

\* the 3 s timeout fires: at most a warning is shown
TimeoutFires ==
  /\ CanStep
  /\ \E t \in app.timers :
       /\ t.kind = "timeout"
       /\ AppApply(Stepped(ClearTimer(AppCur, t.id), "timeout"))
  /\ UNCHANGED xvars

\* click on Demo
ClickDemo ==
  /\ CanStep
  /\ AppApply(Stepped(ToggleDemo(AppCur), "demo"))
  /\ UNCHANGED xvars

\* the demo's interval fires
DemoFires ==
  /\ CanStep
  /\ \E t \in app.timers, value \in DemoValues :
       /\ t.kind = "demo"
       /\ AppApply(Stepped(DemoTick(AppCur, now, value), "demoTick"))
  /\ UNCHANGED xvars

\* click on Record (disabled while recording)
ClickStartRecord ==
  /\ CanStep
  /\ ~app.uiRecording
  /\ AppApply(Stepped(SetRecordingState(
                        [AppCur EXCEPT !.recorder = RecorderStart(@)], TRUE),
                      "startRecord"))
  /\ UNCHANGED xvars

\* click on Stop recording (enabled while recording): stop() and download()
ClickStopRecord ==
  /\ CanStep
  /\ app.uiRecording
  /\ AppApply(Stepped(SetRecordingState(
                        [AppCur EXCEPT !.recorder = RecorderDownload(RecorderStop(@))],
                        FALSE),
                      "stopRecord"))
  /\ UNCHANGED xvars

NextApp ==
  \/ DomReady
  \/ ClickConnectSerial
  \/ ConnectedEvent
  \/ ConnectFailedEvent
  \/ ClickDisconnect
  \/ DisconnectedEvent
  \/ ReadingEvent
  \/ ClickStartMeasure
  \/ ClickStopMeasure
  \/ PollFires
  \/ TimeoutFires
  \/ ClickDemo
  \/ DemoFires
  \/ ClickStartRecord
  \/ ClickStopRecord

SpecApp == Init /\ [][NextApp]_vars

\* =================================================================
\* Claims
\* =================================================================
IsReading(e) == e.type = "reading"
Readings(evs) == SelectSeq(evs, IsReading)
\* the lines a run of the read loop handed to #parseLine
LinesOf(evs) == [n \in 1..Len(Readings(evs)) |-> Readings(evs)[n].raw]

\* ---- reference definitions, written from the claims' words
AllIn(t, cls) == t # <<>> /\ \A n \in 1..Len(t) : t[n] \in cls

\* optional minus, digits, optional '.' and digits
IsLiteral(t) ==
  LET b == IF t # <<>> /\ t[1] = "-" THEN Tail(t) ELSE t
  IN  \/ AllIn(b, Digits)
      \/ \E d \in 1..Len(b) :
           /\ b[d] = "."
           /\ AllIn(SubSeq(b, 1, d - 1), Digits)
           /\ AllIn(SubSeq(b, d + 1, Len(b)), Digits)

Pow10(n) == LET F[k \in 0..n] == IF k = 0 THEN 1 ELSE 10 * F[k - 1] IN F[n]

\* the number a literal denotes, as <<m, e>> for m / 10^e in lowest terms of 10
DecimalValue(t) ==
  LET neg == t[1] = "-"
      b == IF neg THEN Tail(t) ELSE t
      dot == IF \E d \in 1..Len(b) : b[d] = "."
             THEN CHOOSE d \in 1..Len(b) : b[d] = "." ELSE Len(b) + 1
      e == IF dot > Len(b) THEN 0 ELSE Len(b) - dot
      Place(n) == IF n < dot THEN e + (dot - 1 - n) ELSE Len(b) - n
      Sum[n \in 0..Len(b)] ==
        IF n = 0 THEN 0
        ELSE Sum[n - 1] + (IF n = dot THEN 0 ELSE DigitVal(b[n]) * Pow10(Place(n)))
      m == Sum[Len(b)]
      drop == SetMax({z \in 0..e : m % Pow10(z) = 0})
  IN  <<(IF neg THEN 0 - 1 ELSE 1) * (m \div Pow10(drop)), e - drop>>

\* the reading the reference rule gives for a line
RefReading(s) ==
  LET starts == {i \in 1..Len(s) : \E j \in i..Len(s) : IsLiteral(SubSeq(s, i, j))}
  IN  IF starts = {} THEN [value |-> Null, unit |-> <<>>]
      ELSE LET i == SetMin(starts)
               j == SetMax({x \in i..Len(s) : IsLiteral(SubSeq(s, i, x))})
               rest == {x \in (j + 1)..Len(s) : s[x] \notin WhiteSpace}
               u == IF rest = {} THEN Len(s) + 1 ELSE SetMin(rest)
               v == SetMax({x \in (u - 1)..Len(s) :
                              \A y \in u..x : s[y] \in UnitChars})
           IN  [value |-> DecimalValue(SubSeq(s, i, j)), unit |-> SubSeq(s, u, v)]

\* the text between consecutive line feeds of t, one entry per line feed
TerminatedLines(t) ==
  LET lfs == {i \in 1..Len(t) : t[i] = "LF"}
      Nth(k) == CHOOSE i \in lfs : Cardinality({x \in lfs : x <= i}) = k
  IN  [k \in 1..Cardinality(lfs) |->
         SubSeq(t, (IF k = 1 THEN 1 ELSE Nth(k - 1) + 1), Nth(k) - 1)]

\* the received part of the stream, decoded in one piece
ReceivedText == Decode(<<>>, SubSeq(stream, 1, fed)).text
ReceivedLines == TerminatedLines(ReceivedText)
NonBlank(l) == Trim(StripCR(l)) # <<>>

\* C1, as stated: once N newline-terminated lines have been delivered, in
\* whatever chunks, exactly N reading events have been emitted.
C1_OneReadingPerLine ==
  fed = Len(stream) => Len(Readings(emitted)) = Len(ReceivedLines)

\* C1, amended: at every point of every chunking, the reading events emitted
\* are, in arrival order, one per received newline-terminated line that is not
\* empty after removing CR and trimming (also when its value is absent), and a
\* line that is empty after that has no event.
C1_OneReadingPerNonBlankLine ==
  LET kept == SelectSeq(ReceivedLines, NonBlank)
  IN  /\ Len(Readings(emitted)) = Len(kept)
      /\ \A n \in 1..Len(kept) :
           /\ Readings(emitted)[n].raw = Trim(StripCR(kept[n]))
           /\ Readings(emitted)[n] = ParseLine(Trim(StripCR(kept[n])))[2]

\* two lines, the first with an absent value, the second cut between CR and LF
C1_Witness ==
  /\ fed = Len(stream)
  /\ "crlf" \in split
  /\ Len(Readings(emitted)) = 2
  /\ Readings(emitted)[1].value = Null
  /\ Readings(emitted)[2].value # Null

\* C2: however the received bytes were cut into chunks, the lines the read
\* loop has produced, and the unfinished rest it holds, are those of one
\* iteration on all the received bytes as a single chunk.
C2_ChunkBoundaryInvariance ==
  LET whole == ReadChunk(NewLoop, SubSeq(stream, 1, fed))
  IN  /\ LinesOf(emitted) = LinesOf(whole.out)
      /\ framer.buffer = whole.buffer

\* a line received in chunks that cut a two-byte character and the line itself
C2_Witness ==
  /\ fed = Len(stream)
  /\ {"char", "line"} \subseteq split
  /\ Len(LinesOf(emitted)) >= 1
  /\ \E n \in 1..Len(LinesOf(emitted)[1]) : LinesOf(emitted)[1][n] = "deg"

\* C3: the reading #parseLine emits is the reference rule's: the first numeric
\* literal and the unit token after it, or an absent value and an empty unit,
\* with raw the line itself; and the four example lines give the stated readings.
C3_ParserMatchesReference ==
  parsed # <<>> =>
    /\ Len(parsed) = 2
    /\ parsed[1] = EvLog(<<"Received: ">> \o pline)
    /\ parsed[2] = EvReading(pline, RefReading(pline).value, RefReading(pline).unit)
    /\ pline = <<"S", "SP", "S", "SP", "SP", "SP", "SP", "SP", "1", "2", "0", ".", "4", "5", "SP", "g">>
         => parsed[2].value = <<12045, 2>> /\ parsed[2].unit = <<"g">>
    /\ pline = <<"1", "2", "0", ".", "4", "5">>
         => parsed[2].value = <<12045, 2>> /\ parsed[2].unit = <<>>
    /\ pline = <<"E", "S">>
         => parsed[2].value = Null /\ parsed[2].unit = <<>>
    /\ pline = <<"-", "3", ".", "2", "SP", "%">>
         => parsed[2].value = <<0 - 32, 1>> /\ parsed[2].unit = <<"%">>

\* a parsed line with a minus sign, a fraction, blanks and a unit
C3_Witness ==
  /\ parsed # <<>>
  /\ pline = <<"-", "3", ".", "2", "SP", "%">>
  /\ parsed[2] = EvReading(pline, <<0 - 32, 1>>, <<"%">>)

\* ---- the lifecycle claims
\* the events one call emitted, in order
EventsOf(src, id) ==
  LET Mine(e) == e.src = src /\ e.id = id
      es == SelectSeq(events, Mine)
  IN  [n \in 1..Len(es) |-> es[n].ev]

CountType(evs, type) == Cardinality({n \in 1..Len(evs) : evs[n].type = type})

\* no connect() or disconnect() other than connect call i has been made
OnlyConnect(i) ==
  /\ \A h \in ConnIds \ {i} : connects[h].pc = "idle"
  /\ \A j \in DiscIds : disconnects[j].pc = "idle"

\* no connect() or disconnect() other than disconnect call j is in progress
NoOtherInProgress(j) ==
  /\ \A i \in ConnIds : connects[i].pc \notin {"requestPort", "open"}
  /\ \A h \in DiscIds \ {j} : disconnects[h].pc \notin {"cancel", "close"}

\* C4: a connect() that succeeded emitted exactly `connected` and then the
\* `log` of the opened port, and every `reading` of the read loop it started
\* comes after both.
C4_ConnectedThenLogBeforeReadings ==
  \A i \in ConnIds :
    connects[i].pc = "ok" =>
      /\ EventsOf("connect", i)
           = <<EvPlain("connected"), EvLog(<<"Serial port opened (9600 8N1)">>)>>
      /\ \E a \in 1..(Len(events) - 1) :
           /\ events[a] = [ev |-> EvPlain("connected"), src |-> "connect", id |-> i]
           /\ events[a + 1].src = "connect" /\ events[a + 1].id = i
           /\ events[a + 1].ev.type = "log"
           /\ \A n \in 1..Len(events) :
                (events[n].src = "readLoop" /\ events[n].id = i
                   /\ events[n].ev.type = "reading") => n > a + 1

\* a connection that has delivered a reading
C4_Witness ==
  \E i \in ConnIds :
    /\ connects[i].pc = "ok"
    /\ CountType(EventsOf("readLoop", i), "reading") >= 1

\* C5: a connect() in which a step failed has emitted one `error` event, which
\* names the cause, and nothing else, and has failed with that cause.
C5_ConnectFailureSurfaced ==
  \A i \in ConnIds :
    /\ connects[i].cause # "none" =>
         /\ connects[i].pc = "failed"
         /\ connects[i].thrown = connects[i].cause
         /\ EventsOf("connect", i)
              = <<EvError(<<"Connect failed: ", connects[i].cause>>)>>
    /\ connects[i].pc = "failed" => connects[i].cause # "none"

\* three attempts, failing at the port request, at open and at the writer
C5_Witness ==
  /\ \E i \in ConnIds : connects[i].pc = "failed" /\ connects[i].cause = "NotFoundError"
  /\ \E i \in ConnIds : connects[i].pc = "failed" /\ connects[i].cause = "NetworkError"
  /\ \E i \in ConnIds : connects[i].pc = "failed" /\ connects[i].cause = "TypeError"

\* C6, as stated: when the only connect() made on a transport fails, the
\* transport holds no port, writer or reader and no port is left open.
C6_NoHalfOpenPort ==
  [][\A i \in ConnIds :
       (OnlyConnect(i) /\ connects[i].pc # "failed" /\ connects'[i].pc = "failed")
         => /\ port' = NULL /\ writer' = 0 /\ reader' = 0
            /\ \A p \in Ports : ports'[p] = "closed"]_vars

\* C7, as stated: disconnect() called on a transport that holds nothing and
\* has no call in progress changes no field and emits no event.
C7_DisconnectIdleNoOp ==
  [][\A j \in DiscIds :
       (Idle(Cur) /\ disconnects[j].pc = "idle" /\ disconnects'[j].pc # "idle")
         => /\ events' = events
            /\ <<port, writer, reader, readLoopRunning>>'
                 = <<port, writer, reader, readLoopRunning>>]_vars

\* C8: a completed disconnect() went through the reader, the writer and the
\* port step in that order, whichever of them failed, and emitted
\* `disconnected` once, followed only by the closing log.
C8_BestEffortTeardown ==
  \A j \in DiscIds :
    disconnects[j].pc = "done" =>
      LET es == EventsOf("disconnect", j)
      IN  /\ disconnects[j].tried = <<"reader", "writer", "port">>
          /\ CountType(es, "disconnected") = 1
          /\ Len(es) >= 2
          /\ es[Len(es) - 1] = EvPlain("disconnected")
          /\ es[Len(es)] = EvLog(<<"Serial port closed">>)

\* a disconnect() in which all three steps failed
C8_Witness ==
  \E j \in DiscIds :
    /\ disconnects[j].pc = "done"
    /\ disconnects[j].failed = {"reader", "writer", "port"}

\* C9: a disconnect() emits one `error` event if its close step has failed
\* and none otherwise, whatever happened in the reader and writer steps.
C9_ErrorOnlyOnCloseFailure ==
  \A j \in DiscIds :
    CountType(EventsOf("disconnect", j), "error")
      = IF "port" \in disconnects[j].failed THEN 1 ELSE 0

\* a disconnect() whose reader and writer steps failed and whose close did not
C9_Witness ==
  \E j \in DiscIds :
    /\ disconnects[j].pc = "done"
    /\ disconnects[j].failed = {"reader", "writer"}
    /\ CountType(EventsOf("disconnect", j), "error") = 0

\* C10, as stated: when disconnect() completes, after connect() calls that all
\* succeeded and with no other call in progress, the transport holds no
\* reader, writer or port.
C10_NothingHeldAfterDisconnect ==
  [][\A j \in DiscIds :
       (/\ NoOtherInProgress(j)
        /\ \A i \in ConnIds : connects[i].pc # "failed"
        /\ disconnects[j].pc # "done"
        /\ disconnects'[j].pc = "done")
         => port' = NULL /\ writer' = 0 /\ reader' = 0]_vars

\* ---- send
\* what send call k has written, in order
WrittenBy(k) ==
  LET Mine(w) == w.by = k
      ws == SelectSeq(written, Mine)
  IN  [n \in 1..Len(ws) |-> ws[n].data]

\* C11: a send() called while the transport has no writer has completed
\* without failing, has emitted one `error` event and nothing else (no `Sent`
\* log), and has written nothing.
C11_SendWithoutWriter ==
  \A k \in SendIds :
    (sends[k].pc # "idle" /\ sends[k].on = 0) =>
      /\ sends[k].pc = "done"
      /\ EventsOf("send", k) = <<EvError(<<"Not connected">>)>>
      /\ WrittenBy(k) = <<>>

\* a send() after a connection was opened and disconnected again
C11_Witness ==
  \E k \in SendIds, a \in 1..Len(events), b \in 1..Len(events) :
    /\ a < b
    /\ events[a].src = "disconnect" /\ events[a].ev = EvPlain("disconnected")
    /\ \E i \in ConnIds : connects[i].pc = "ok"
    /\ events[b].src = "send" /\ events[b].id = k
    /\ sends[k].pc = "done" /\ sends[k].on = 0
    /\ writer = 0

\* C12, as stated: when the write of a send() fails while the transport holds
\* the writer, an `error` event is emitted for it and the read loop is left
\* as it was.
C12_WriteFailureSurfaced ==
  [][\A k \in SendIds :
       (sends[k].pc = "write" /\ sends'[k].pc = "rejected" /\ writer = sends[k].on)
         => /\ Len(events') = Len(events) + 1
            /\ events'[Len(events')].ev.type = "error"
            /\ loops' = loops
            /\ reader' = reader
            /\ readLoopRunning' = readLoopRunning]_vars

\* the command token: the command without the blanks and line ends around it
Token(cmd) == SelectSeq(cmd, LAMBDA c : c \notin WhiteSpace)
Count(t, c) == Cardinality({n \in 1..Len(t) : t[n] = c})

\* C13: a send() made while the transport holds a writer has written at most
\* one chunk, and once its write has completed exactly one: the command token
\* followed by CR LF, with no other CR or LF in it.
C13_OneTerminatedLinePerSend ==
  \A k \in SendIds :
    sends[k].on # 0 =>
      /\ Len(WrittenBy(k)) = (IF sends[k].pc = "done" THEN 1 ELSE 0)
      /\ \A n \in 1..Len(WrittenBy(k)) :
           LET data == WrittenBy(k)[n]
           IN  /\ data = Token(sends[k].cmd) \o <<"CR", "LF">>
               /\ Count(data, "CR") = 1
               /\ Count(data, "LF") = 1

\* two sends on one connection, one of a command that came already terminated
C13_Witness ==
  \E k \in SendIds, h \in SendIds :
    /\ k # h
    /\ sends[k].pc = "done" /\ sends[h].pc = "done"
    /\ sends[k].cmd = <<"Z", "CR", "LF">>
    /\ sends[h].cmd = <<"SP", "S", "I">>
    /\ Len(written) = 2
    /\ written[1].by = k /\ written[1].data = <<"Z", "CR", "LF">>
    /\ written[2].by = h /\ written[2].data = <<"S", "I", "CR", "LF">>
    /\ written[1].port = written[2].port

\* ---- the read loop
\* C14: when a read of loop k has failed, the loop ends in its next step; it
\* emits exactly one `error` event if the loop is intended to be running (as
\* it is whenever no disconnect() has been called) and no event if a
\* disconnect() has requested the stop.
C14_ReadErrorSurfacedUnlessStopping ==
  [][\A k \in ConnIds :
       (loops[k].pc = "fail" /\ loops'[k] # loops[k]) =>
         /\ loops'[k].pc = "ended"
         /\ (\A j \in DiscIds : disconnects[j].pc = "idle") => readLoopRunning
         /\ ~readLoopRunning => \E j \in DiscIds : disconnects[j].pc # "idle"
         /\ IF readLoopRunning
            THEN events' = Append(events, [ev |-> EvError(<<"Read error: ">>),
                                           src |-> "readLoop", id |-> k])
            ELSE events' = events]_vars

\* a loop that ended on a failed read, silently, after a disconnect()
C14_Witness ==
  \E k \in ConnIds :
    /\ loops[k].pc = "ended"
    /\ readers[loops[k].on].state = "errored"
    /\ CountType(EventsOf("readLoop", k), "error") = 0
    /\ ~readLoopRunning

\* the read loops that have started and not ended
LoopsRunning == {k \in ConnIds : loops[k].pc \in {"run", "read", "done", "fail"}}

\* C15, as stated: whatever the interleaving of connect() and disconnect()
\* calls (connect() called twice included), at most one read loop is running
\* at any time.
C15_AtMostOneReadLoop ==
  Cardinality(LoopsRunning) <= 1

\* ---- the lifecycle
\* the lifecycle state the fields stand for; the fields alone do not tell a
\* transport that is opening from one whose disconnect() awaits the close, so
\* a disconnect() in progress decides between the two
LifeState ==
  LET closing == \E j \in DiscIds : disconnects[j].pc \in {"cancel", "close"}
  IN  IF port = NULL /\ writer = 0 /\ reader = 0 /\ ~readLoopRunning THEN "Idle"
      ELSE IF port # NULL /\ writer # 0 /\ reader # 0 /\ readLoopRunning THEN "Open"
      ELSE IF port # NULL /\ writer # 0 /\ reader = 0 /\ readLoopRunning THEN "Error"
      ELSE IF ~readLoopRunning /\ closing THEN "Closing"
      ELSE IF port # NULL /\ writer = 0 /\ reader = 0 /\ ~readLoopRunning THEN "Opening"
      ELSE "None"

\* the transitions of the lifecycle; Error goes back to Idle through the
\* Closing of the disconnect() that recovers it
LifeSteps ==
  {<<"Idle", "Opening">>, <<"Opening", "Open">>, <<"Open", "Closing">>,
   <<"Closing", "Idle">>, <<"Open", "Error">>, <<"Error", "Idle">>,
   <<"Error", "Closing">>}

\* C16, as stated: every step of the transport leaves the lifecycle state as
\* it is or takes one of the transitions Idle -> Opening -> Open -> Closing
\* -> Idle and Open -> Error -> Idle.
C16_LifecycleTransitions ==
  [][LifeState' # LifeState => <<LifeState, LifeState'>> \in LifeSteps]_vars

\* ---- failures
\* C17, as stated: every call or read loop of the transport that has failed
\* (a connect(), a send(), the start of a read loop) has emitted an `error`
\* event.
C17_FailuresBecomeErrorEvents ==
  /\ \A i \in ConnIds :
       connects[i].pc = "failed" => CountType(EventsOf("connect", i), "error") >= 1
  /\ \A k \in SendIds :
       sends[k].pc = "rejected" => CountType(EventsOf("send", k), "error") >= 1
  /\ \A k \in ConnIds :
       loops[k].pc = "rejected" => CountType(EventsOf("readLoop", k), "error") >= 1

\* ---- the manager
\* C18: a connectSerial() made while the manager is Connected fails as already
\* connected and changes nothing of the active transport: its fields, its
\* port, reader and writer, its read loop and its calls are as they were.
C18_AlreadyConnectedLeavesTransport ==
  [][(/\ ManagerState = "Connected"
      /\ \/ manager' # manager
         \/ \E i \in ConnIds : connects[i].pc = "idle" /\ connects'[i].pc # "idle")
       => /\ manager'.refused = manager.refused + 1
          /\ UNCHANGED tvars
          /\ ManagerState' = "Connected"]_vars

\* after a refused connectSerial() the transport has written a command and
\* delivered a reading
C18_Witness ==
  /\ manager.refused >= 1
  /\ Len(written) > manager.written
  /\ \E n \in (manager.events + 1)..Len(events) : events[n].ev.type = "reading"

\* ---- the Recorder
\* the addReading() calls made while recording since the most recent start():
\* those after it and before the first stop() that follows it
RefCount(calls) ==
  LET starts == {n \in 1..Len(calls) : calls[n] = "start"}
  IN  IF starts = {} THEN 0
      ELSE LET s == SetMax(starts)
               stops == {n \in s..Len(calls) : calls[n] = "stop"}
               e == IF stops = {} THEN Len(calls) ELSE SetMin(stops)
           IN  Cardinality({n \in s..e : calls[n] = "add"})

\* C19: after every call on the Recorder the recorded count is the number of
\* addReading() calls made while recording since the most recent start();
\* addReading() while not recording changes nothing, start() leaves a count of
\* zero, and stop() and download() leave the recorded data as they were.
C19_RecorderCount ==
  [][Len(recCalls') = Len(recCalls) + 1 =>
       LET c == recCalls'[Len(recCalls')]
       IN  /\ Len(recorder'.data) = RefCount(recCalls')
           /\ (c = "add" /\ ~recorder.recording) => recorder' = recorder
           /\ c = "start" => Len(recorder'.data) = 0 /\ recorder'.recording
           /\ c \in {"stop", "download"} => recorder'.data = recorder.data]_vars

\* two readings recorded, one more ignored after stop(), and the download
C19_Witness ==
  /\ recCalls = <<"start", "add", "add", "stop", "add", "download">>
  /\ Len(recorder.data) = 2
  /\ ~recorder.recording
  /\ recorder.returned = "true"

\* ---- the ChartManager
\* every retained point is inside the time window that ends now
AllInWindow ==
  \A n \in 1..Len(chart.data) : chart.data[n].x >= now - chart.timeWindow * MsPerSecond

\* the retained points are the last of those added since the last clear(),
\* in the order of their times
ChronologicalSuffix ==
  LET d == chart.data
      a == chartHist.added
  IN  /\ Len(d) <= Len(a)
      /\ d = SubSeq(a, Len(a) - Len(d) + 1, Len(a))
      /\ \A n \in 1..(Len(d) - 1) : d[n].x <= d[n + 1].x

\* C20, as stated: after every addReading() or setTimeWindow() every retained
\* point is inside the time window, and the retained points are a
\* chronological suffix of the points added since the last clear().
C20_PrunedToWindow ==
  chartHist.last.op \in {"addReading", "setTimeWindow"}
    => AllInWindow /\ ChronologicalSuffix

\* C20, amended: after every addReading() of a number and every
\* setTimeWindow() every retained point is inside the time window; and after
\* every call the retained points are a chronological suffix of the points
\* added since the last clear().
C20_PrunedToWindowWhenAdded ==
  /\ ChronologicalSuffix
  /\ (\/ chartHist.last.op = "setTimeWindow"
      \/ chartHist.last.op = "addReading" /\ chartHist.last.value # Null)
       => AllInWindow

\* an added point after which the oldest of three points is gone and the one
\* exactly at the cutoff is kept
C20_Witness ==
  /\ chartHist.last.op = "addReading" /\ chartHist.last.value # Null
  /\ Len(chartHist.added) = 3
  /\ Len(chart.data) = 2
  /\ chart.data[1].x = now - chart.timeWindow * MsPerSecond

\* ---- the order of the read loop's events
\* C21: the events the read loop has emitted are, for the received non-empty
\* lines in arrival order, a `log` carrying the line immediately followed by
\* the `reading` of that same line, and nothing else.
C21_LogThenReadingPerLine ==
  LET kept == SelectSeq(ReceivedLines, NonBlank)
  IN  /\ Len(emitted) = 2 * Len(kept)
      /\ \A n \in 1..Len(kept) :
           LET line == Trim(StripCR(kept[n]))
           IN  /\ emitted[2 * n - 1] = EvLog(<<"Received: ">> \o line)
               /\ emitted[2 * n].type = "reading"
               /\ emitted[2 * n].raw = line

\* two different lines that arrived in one chunk
C21_Witness ==
  /\ fed = Len(stream)
  /\ split = {}
  /\ Len(emitted) = 4
  /\ emitted[1].type = "log" /\ emitted[3].type = "log"
  /\ emitted[2].raw # emitted[4].raw

RECURSIVE WithoutBlankLines(_)
\* the bytes without their complete lines that are empty after removing CR
\* and trimming (the line's newline goes with it)
WithoutBlankLines(bytes) ==
  LET lfs == {i \in 1..Len(bytes) : bytes[i] = "LF"}
  IN  IF lfs = {} THEN bytes
      ELSE LET k == SetMin(lfs)
               line == SubSeq(bytes, 1, k)
               rest == WithoutBlankLines(SubSeq(bytes, k + 1, Len(bytes)))
           IN  IF NonBlank(Decode(<<>>, line).text) THEN line \o rest ELSE rest

\* C22: a complete line that is empty after removing CR and trimming has no
\* log and no reading event, and the events emitted and the unfinished rest
\* the loop holds are those of the received bytes without such lines.
C22_EmptyLineIsSkipped ==
  LET without == ReadChunk(NewLoop, WithoutBlankLines(SubSeq(stream, 1, fed)))
  IN  /\ emitted = without.out
      /\ framer.buffer = without.buffer
      /\ CountType(emitted, "log") = Len(SelectSeq(ReceivedLines, NonBlank))
      /\ \A n \in 1..Len(emitted) :
           emitted[n].type = "reading" => emitted[n].raw # <<>>

\* a line that is empty after trimming, between two lines that have readings
C22_Witness ==
  /\ fed = Len(stream)
  /\ Len(ReceivedLines) = 3
  /\ NonBlank(ReceivedLines[1])
  /\ ~NonBlank(ReceivedLines[2])
  /\ NonBlank(ReceivedLines[3])
  /\ Len(Readings(emitted)) = 2

\* ---- cancellation of the read loop
\* C23, as stated: while a disconnect() that has set the stop flag and
\* cancelled the reader awaits the cancellation, and the flag is still set to
\* stop, no read loop of the transport is running or waiting in read() once
\* the settled read has been handled, and every read loop that has
\* terminated has left its reader released.
C23_CancelStopsReadLoop ==
  (/\ \E j \in DiscIds : disconnects[j].pc = "cancel"
   /\ ~readLoopRunning
   /\ ~Ready(Cur))
    => /\ LoopsRunning = {}
       /\ \A k \in ConnIds : loops[k].pc = "ended" => readers[k].state = "released"

\* ---- the events of a failing teardown
\* the events a disconnect() emitted before its `disconnected`
BeforeDisconnected(es) ==
  LET at == {n \in 1..Len(es) : es[n].type = "disconnected"}
  IN  IF at = {} THEN es ELSE SubSeq(es, 1, SetMin(at) - 1)

\* C24, as stated: a completed disconnect() has emitted, before its
\* `disconnected`, one `error` event for each of its steps that failed.
C24_EveryFailedStepEmitsError ==
  \A j \in DiscIds :
    disconnects[j].pc = "done" =>
      CountType(BeforeDisconnected(EventsOf("disconnect", j)), "error")
        = Cardinality(disconnects[j].failed)

\* C24, amended: a completed disconnect() whose close step failed has emitted
\* the `error` event 'Close error: ...' before its `disconnected`; a failure
\* of the reader or the writer step has no event: every `error` a
\* disconnect() emits is the close step's, and none follows `disconnected`.
C24_CloseFailureBeforeDisconnected ==
  \A j \in DiscIds :
    LET es == EventsOf("disconnect", j)
        before == BeforeDisconnected(es)
    IN  /\ \A n \in 1..Len(es) :
             es[n].type = "error" =>
               /\ es[n] = EvError(<<"Close error: ">>)
               /\ "port" \in disconnects[j].failed
               /\ n <= Len(before)
        /\ disconnects[j].pc = "done" =>
             CountType(before, "error")
               = Cardinality(disconnects[j].failed \cap {"port"})

\* a disconnect() whose reader step and close failed and whose writer step did not
C24_Witness ==
  \E j \in DiscIds :
    /\ disconnects[j].pc = "done"
    /\ disconnects[j].failed = {"reader", "port"}
    /\ BeforeDisconnected(EventsOf("disconnect", j)) = <<EvError(<<"Close error: ">>)>>

\* ---- readings and the lifecycle events
\* C25, as stated: every `reading` event the transport has emitted follows a
\* `connected` event with no `disconnected` event between the two.
C25_NoReadingAfterDisconnected ==
  \A n \in 1..Len(events) :
    events[n].ev.type = "reading" =>
      LET at == {h \in 1..(n - 1) :
                   events[h].ev.type \in {"connected", "disconnected"}}
      IN  at # {} /\ events[SetMax(at)].ev.type = "connected"

\* ---- the application's polling timer
PollTimers == {t \in app.timers : t.kind = "poll"}

\* C26: from the handling of a `disconnected` event until startMeasurement is
\* invoked again no polling timer is active and no `SI` is sent by one; at
\* any time there is at most one polling timer, the one measurementInterval
\* holds.
C26_NoPollingAfterDisconnect ==
  /\ Cardinality(PollTimers) <= 1
  /\ \A t \in PollTimers : t.id = app.measurementInterval
  /\ app.quiet => PollTimers = {} /\ app.measurementInterval = 0
  /\ app.last = "poll" => ~app.quiet

\* a `disconnected` event handled while the measurement was polling: in six
\* steps (connect, connected, start, a poll, disconnect, disconnected) the
\* measurement cannot have been stopped by hand
C26_Witness ==
  /\ app.last = "disconnected"
  /\ app.steps = 6
  /\ app.polls >= 1
  /\ app.quiet
  /\ ~app.uiMeasuring
  /\ app.timers = {}

\* ---- the connection state the page shows
\* C27, as stated: once the page is set up, it shows the connected state
\* exactly when the ConnectionManager is Connected or the demo is running.
C27_UiConnectedIffConnectedOrDemo ==
  app.loaded =>
    (app.uiConnected <=> (app.conn = "Connected" \/ app.demoInterval # 0))

\* ---- readings without a value
\* C28: the handler of a `reading` event always updates the readout; when the
\* value is absent it leaves the statistics, the chart and the recorder as
\* they were, and when it is a number the statistics' count grows by one and
\* the recorder's by one if it is recording. The two counts grow in no step
\* but that of a reading (or a demo value) that is a number.
C28_NullReadingOnlyUpdatesReadout ==
  [][/\ (app'.steps # app.steps /\ app'.last = "reading") =>
          /\ app'.readout.n = app.readout.n + 1
          /\ IF app'.readout.value = Null
             THEN /\ app'.stats = app.stats
                  /\ chart' = chart
                  /\ recorder' = recorder
             ELSE /\ app'.stats = app.stats + 1
                  /\ Len(recorder'.data)
                       = Len(recorder.data) + (IF recorder.recording THEN 1 ELSE 0)
     /\ (app'.stats # app.stats \/ Len(recorder'.data) > Len(recorder.data)) =>
          /\ app'.last \in {"reading", "demoTick"}
          /\ app'.readout.value # Null]_vars

\* while recording, a reading with a number and then one without: the second
\* is in the readout only
C28_Witness ==
  /\ app.last = "reading"
  /\ app.readout.n = 2
  /\ app.readout.value = Null
  /\ app.stats = 1
  /\ recorder.recording
  /\ Len(recorder.data) = 1
  /\ app.hasChart
  /\ Len(chart.data) = 1

====
